---- MODULE Spec2Model ----
(***************************************************************************)
(* Model of sslsub.py: the serial SSL Labs scanner.                        *)
(*   read_subdomains -> for each host: has_https -> scan_until_ready ->    *)
(*   extract_summary -> csv row.                                           *)
(* The remote service (ssl.resultsFromCache, ssl.newScan), the TCP probe   *)
(* and the input file are the environment: their outcomes are chosen       *)
(* nondeterministically from small sets.  Time is the injected clock: it   *)
(* advances only by time.sleep.                                            *)
(***************************************************************************)
EXTENDS Integers, Sequences, FiniteSets, TLC

\* ---------------------------------------------------------------- constants
POLL_WAIT == 30
BACKOFF_START == 60
BACKOFF_MAX == 600
MAX_POLL_MINUTES == 20

\* ------------------------------------------------------------------- bounds
\* longest input file, in lines
MaxLines == 3
\* the remote service stops answering quota-exceeded once a session has
\* slept this many backoff waits
MaxBackoffs == 5

Min(a, b) == IF a <= b THEN a ELSE b

RECURSIVE Pow2(_)
Pow2(n) == IF n = 0 THEN 1 ELSE 2 * Pow2(n - 1)

\* ------------------------------------------------------------ input file
\* A line is a sequence of characters; a file is a sequence of lines.
Whitespace == {" ", "\n"}

FileLines ==
    { <<"a", "\n">>,
      <<" ", "a", " ", "\n">>,
      <<"b", "\n">>,
      <<"#", "a", "\n">>,
      <<"-", "-", "-", " ", "a", "\n">>,
      <<" ", "\n">>,
      <<"\n">>,
      <<" ", "#", "b", "\n">> }

Files == UNION { [1..n -> FileLines] : n \in 0..MaxLines }

RECURSIVE LStrip(_)
LStrip(s) == IF s /= <<>> /\ Head(s) \in Whitespace THEN LStrip(Tail(s)) ELSE s

RECURSIVE RStrip(_)
RStrip(s) ==
    IF s /= <<>> /\ s[Len(s)] \in Whitespace
    THEN RStrip(SubSeq(s, 1, Len(s) - 1)) ELSE s

\* str.strip()
Strip(s) == RStrip(LStrip(s))

\* str.startswith(p)
StartsWith(s, p) == Len(s) >= Len(p) /\ SubSeq(s, 1, Len(p)) = p

\* the filter of the first loop of read_subdomains (the line is already stripped)
Skipped_hash_only(line) ==
    \/ line = <<>>
    \/ StartsWith(line, <<"#">>)

Skipped(line) ==
    \/ line = <<>>
    \/ StartsWith(line, <<"#">>)
    \/ StartsWith(line, <<"-", "-", "-">>)

RECURSIVE ReadLines(_)
ReadLines(f) ==
    IF f = <<>> THEN <<>>
    ELSE LET line == Strip(Head(f))
         IN  IF Skipped(line) THEN ReadLines(Tail(f))
             ELSE <<line>> \o ReadLines(Tail(f))

RECURSIVE DedupFrom(_, _, _)
DedupFrom(subs, seen, ordered) ==
    IF subs = <<>> THEN ordered
    ELSE IF Head(subs) \notin seen
         THEN DedupFrom(Tail(subs), seen \cup {Head(subs)}, Append(ordered, Head(subs)))
         ELSE DedupFrom(Tail(subs), seen, ordered)

read_subdomains_nodedup(f) == ReadLines(f)

read_subdomains_keeplast(f) ==
    LET subs == ReadLines(f)
        keep == { i \in 1..Len(subs) : \A j \in (i + 1)..Len(subs) : subs[j] /= subs[i] }
    IN  [ k \in 1..Cardinality(keep) |->
            subs[CHOOSE i \in keep : Cardinality({ m \in keep : m <= i }) = k] ]

read_subdomains(f) == DedupFrom(ReadLines(f), {}, <<>>)

\* ------------------------------------- what read_subdomains has to return
\* l is line without its leading and trailing whitespace
IsStripOf(l, line) ==
    \E a \in 0..Len(line) : \E b \in a..Len(line) :
        /\ l = SubSeq(line, a + 1, b)
        /\ \A i \in 1..a : line[i] \in Whitespace
        /\ \A i \in (b + 1)..Len(line) : line[i] \in Whitespace
        /\ (l /= <<>> => (l[1] \notin Whitespace /\ l[Len(l)] \notin Whitespace))

\* the contiguous pieces of a line
Pieces(line) ==
    { SubSeq(line, a + 1, b) : a \in 0..Len(line), b \in 0..Len(line) }

\* the stripped line is a host: not empty, no comment, no separator
IsHost(l) ==
    /\ l /= <<>>
    /\ l[1] /= "#"
    /\ ~(Len(l) >= 3 /\ l[1] = "-" /\ l[2] = "-" /\ l[3] = "-")

\* out lists, in the order of the file, the first occurrence of every host
\* of f: pos gives the line each entry comes from
IsFirstSeenOrder(out, f) ==
    \E pos \in [1..Len(out) -> 1..Len(f)] :
        /\ \A k \in 1..Len(out) : IsStripOf(out[k], f[pos[k]]) /\ IsHost(out[k])
        /\ \A k, m \in 1..Len(out) : k < m => (pos[k] < pos[m] /\ out[k] /= out[m])
        /\ \A i \in 1..Len(f) : \A l \in Pieces(f[i]) :
               (IsStripOf(l, f[i]) /\ IsHost(l)) =>
                   \E k \in 1..Len(out) : out[k] = l /\ pos[k] <= i

\* ------------------------------------------------------------ host gate
ConnOutcomes == {"connected", "refused", "timeout", "dnsfail"}

has_https_always(conn) == TRUE

has_https(conn) == conn = "connected"

\* ------------------------------------------------------- remote responses
LimitMessage == "Concurrent assessment limit reached"
OtherMessage == "Unable to resolve domain name"

\* the messages that contain the text "Concurrent assessment limit"
LimitTexts == {LimitMessage}

\* an entry of the errors list that is not a JSON object
NotAnObject == "not an object"

ErrorLists == { <<>>, <<OtherMessage>>, <<OtherMessage, LimitMessage>> }

\* "None" is an absent status key
Statuses == {"None", "IN_PROGRESS", "READY", "ERROR"}

\* endpoints of a payload: absent, parseable, or not of the summary shape
RemoteShapes == {"full", "malformed"}

ServiceWarning == "Server provided more than one HSTS header"

\* a field of a csv row, as characters ("N/A") or as one token
NA == <<"N", "/", "A">>
Tok(s) == <<s>>

Raise == [kind |-> "raise"]
NoneVal == [kind |-> "none"]

\* an answer that is not a JSON object (a non-empty string)
Text == [kind |-> "text"]

Payload(h, st, er, w, sh) ==
    [kind |-> "resp", host |-> h, status |-> st, errors |-> er,
     wkey |-> w, wnull |-> FALSE,
     warnings |-> IF w THEN <<ServiceWarning>> ELSE <<>>,
     shape |-> sh, error |-> ""]

\* a payload with "warnings": null
NullWarnings(h, st) ==
    [Payload(h, st, <<>>, TRUE, "full") EXCEPT !.wnull = TRUE, !.warnings = <<>>]

\* the payloads ssl.newScan / ssl.resultsFromCache give for host h: every
\* status with every error list, with and without a warnings list, with
\* endpoints that are or are not of the summary shape, the bare
\* quota-exceeded answer that has neither host nor status nor endpoints,
\* and the answers that are not of the shape of an assessment result: an
\* errors list with an entry that is no object, "warnings": null, and an
\* answer that is no object at all
Responses(h) ==
    { Payload(h, st, er, FALSE, "full") : st \in Statuses, er \in ErrorLists }
    \cup { Payload(h, st, <<>>, TRUE, "full") : st \in Statuses }
    \cup { Payload(h, st, <<>>, FALSE, "malformed") : st \in Statuses }
    \cup { Payload(NA, "None", <<LimitMessage>>, FALSE, "none") }
    \cup { Payload(h, st, <<NotAnObject>>, FALSE, "full") : st \in {"IN_PROGRESS", "READY"} }
    \cup { NullWarnings(h, "IN_PROGRESS"), Text }

\* the loop of is_limit_error over the errors list: e.get raises on an entry
\* that is no object, unless a quota-exceeded entry comes before it
RECURSIVE LimitScan(_)
LimitScan(errs) ==
    IF errs = <<>> THEN "False"
    ELSE IF Head(errs) = NotAnObject THEN "raise"
    ELSE IF Head(errs) \in LimitTexts THEN "True"
    ELSE LimitScan(Tail(errs))

\* "True", "False", or "raise" when resp.get or e.get raises
is_limit_error(resp) ==
    IF resp.kind /= "resp" THEN "raise" ELSE LimitScan(resp.errors)

\* is_limit_error(data) returned True
IsLimit(resp) == is_limit_error(resp) = "True"

\* {"host": host, "status": "ERROR", "error": f"{msg}: {e}"}
ErrorRecord(h, msg) ==
    [kind |-> "resp", host |-> h, status |-> "ERROR", errors |-> <<>>,
     wkey |-> FALSE, wnull |-> FALSE, warnings |-> <<>>, shape |-> "none",
     error |-> msg]

TimeoutWarning == "Stopped polling after 20 minutes."

\* data.setdefault("warnings", []); data["warnings"].append(...)
AppendWarning_replace(d) ==
    [d EXCEPT !.wkey = TRUE, !.warnings = <<TimeoutWarning>>]

AppendWarning_none(d) == d

\* None.append raises when the key is there with a null value
AppendWarning(d) ==
    IF d.wkey /\ d.wnull THEN Raise
    ELSE [d EXCEPT !.wkey = TRUE,
                   !.warnings = Append(IF d.wkey THEN d.warnings ELSE <<>>, TimeoutWarning)]

\* cached and cached.get("status") == "READY", for cached None or an object
CacheHit_never(c) == FALSE

CacheHit_any(c) == c.kind = "resp"

CacheHit(c) == c.kind = "resp" /\ c.status = "READY"

\* status in ("READY", "ERROR")
IsTerminal_error_only(st) == st = "ERROR"

IsTerminal_ready_only(st) == st = "READY"

IsTerminal(st) == st \in {"READY", "ERROR"}

\* wait_for = min(backoff, BACKOFF_MAX)
WaitFor_double(b) == b * 2

WaitFor(b) == Min(b, BACKOFF_MAX)

\* backoff = min(backoff * 2, BACKOFF_MAX)
NextBackoff_add(b) == Min(b + BACKOFF_START, BACKOFF_MAX)

NextBackoff_floor(b) == BACKOFF_START

NextBackoff(b) == Min(b * 2, BACKOFF_MAX)

\* backoff = BACKOFF_START at the start of a session, whatever the interval
\* of the session before was
SessionBackoff_carry(prev) == IF prev = 0 THEN BACKOFF_START ELSE prev

SessionBackoff(prev) == BACKOFF_START

\* line 195: the answer of the extra call is taken as it is and control goes
\* back to the head of the poll loop
AfterExtraCall_loop(o) ==
    IF IsLimit(o) THEN "midlimit" ELSE "poll"

AfterExtraCall(o) == "poll"

\* (time.time() - started_at) / 60.0 >= MAX_POLL_MINUTES, on a clock in seconds
TimedOut_strict(elapsed) == elapsed > MAX_POLL_MINUTES * 60

TimedOut(elapsed) == elapsed >= MAX_POLL_MINUTES * 60

\* --------------------------------------------------------------- summary
Header ==
    << "Host", "IP", "Grade", "Status", "Protocols",
       "Strongest Cipher", "Weakest Cipher", "All Ciphers",
       "Cert Subject", "Cert Issuer", "Valid From", "Valid To",
       "Key Algorithm", "Key Size", "Chain Issues" >>

\* data.get("status", "N/A")
StatusField(d) == IF d.status = "None" THEN NA ELSE Tok(d.status)

RECURSIVE Repeat(_, _)
Repeat(x, n) == IF n = 0 THEN <<>> ELSE <<x>> \o Repeat(x, n - 1)

extract_summary(d) ==
    IF d.shape = "malformed"
    THEN <<d.host>> \o Repeat(NA, 13)
    ELSE IF d.shape = "full"
    THEN << d.host, Tok("ip"), Tok("grade"), StatusField(d), Tok("protocols"),
            Tok("strongest"), Tok("weakest"), Tok("ciphers"),
            Tok("subject"), Tok("issuer"), Tok("notBefore"), Tok("notAfter"),
            Tok("keyAlg"), Tok("keySize"), Tok("chainIssues") >>
    ELSE << d.host, NA, NA, StatusField(d), NA,
            NA, NA, NA,
            NA, NA, Tok("1970-01-01 00:00:00"), Tok("1970-01-01 00:00:00"),
            NA, NA, NA >>

NoHttpsRow(h) ==
    << h, NA, Tok("No HTTPS"), NA, NA,
       NA, NA, NA,
       NA, NA, NA, NA,
       NA, NA, NA >>

\* ------------------------------------------------------- exception handlers
\* try: cached = ssl.resultsFromCache(host) / except Exception: cached = None
CacheTry_propagate(o) == o

CacheTry(o) == IF o.kind = "raise" THEN NoneVal ELSE o

\* try: data = ssl.newScan(host) / except: return {... "newScan failed" ...}
SubmitTry(h, o) == IF o.kind = "raise" THEN ErrorRecord(h, "newScan failed") ELSE o

\* try: data = ssl.newScan(host) / except: data = {... "newScan retry failed" ...}
RetryTry(h, o) == IF o.kind = "raise" THEN ErrorRecord(h, "newScan retry failed") ELSE o

\* try: ... ssl.newScan(host) ... / except: data = {... "poll failed" ...}; return data
PollTry_propagate(h, o) == o

PollTry(h, o) == IF o.kind = "raise" THEN ErrorRecord(h, "poll failed") ELSE o

\* ------------------------------------------------------------------ state
VARIABLES
    file,        \* the lines of INPUT_FILE not read yet
    subdomains,  \* main: read_subdomains(INPUT_FILE)
    firstSeen,   \* history: subdomains held the hosts of the file, each once, first-seen
    idx,         \* main: position of the for loop in subdomains
    pc,          \* control location
    data,        \* scan_until_ready: current response
    backoff,     \* scan_until_ready: stored backoff interval (0: no session yet)
    clock,       \* time.time() - started_at, in seconds
    attempt,     \* scan_until_ready: poll counter
    result,      \* value returned by scan_until_ready
    rows,        \* csv rows written after the header
    txt,         \* sections written to OUTPUT_TXT
    calls,       \* history: ssl.newScan calls of the current session
    sleeps,      \* history: time.sleep calls of the current session
    waits,       \* history: backoff waits slept in the current session
    limitRun,    \* history: consecutive quota-exceeded responses just received
    remote,      \* history: hosts for which the remote service was called
    sessions,    \* history: hosts for which a session was created
    failed,      \* history: a newScan call of the current session raised
    timedOut,    \* history: the current session ended at the ceiling
    lastResp,    \* history: last payload received from ssl.newScan
    onlyInProg,  \* history: every newScan answer so far was in-progress
    cacheReady,  \* history: the READY payload the cache lookup reported
    unreachable  \* history: hosts whose TCP probe did not connect

vars == << file, subdomains, firstSeen, idx, pc, data, backoff, clock, attempt, result,
           rows, txt, calls, sleeps, waits, limitRun, remote, sessions,
           failed, timedOut, lastResp, onlyInProg, cacheReady, unreachable >>

mainVars == << file, subdomains, firstSeen, idx, rows, txt, cacheReady, unreachable >>

host == subdomains[idx]

\* what ssl.resultsFromCache can do
CacheOutcomes(h) == {Raise, NoneVal} \cup Responses(h)

\* what ssl.newScan can do
NewScanOutcomes(h) ==
    {Raise} \cup { r \in Responses(h) : IsLimit(r) => Len(waits) < MaxBackoffs }

\* an answer the code goes on polling for: is_limit_error returns False
\* (lines 155, 187) and the status is neither READY nor ERROR (line 172)
InProgress(o) ==
    o.kind = "resp" /\ is_limit_error(o) = "False" /\ ~IsTerminal(o.status)

\* history kept for every answer of ssl.newScan
Received(o) ==
    /\ calls' = calls + 1
    /\ remote' = remote \cup {host}
    /\ failed' = (failed \/ o.kind = "raise")
    /\ lastResp' = IF o.kind = "raise" THEN lastResp ELSE o
    /\ limitRun' = IF IsLimit(o) THEN limitRun + 1 ELSE 0
    /\ onlyInProg' = (onlyInProg /\ InProgress(o))

Init ==
    /\ file \in Files
    /\ subdomains = <<>>
    /\ firstSeen = TRUE
    /\ idx = 1
    /\ pc = "read"
    /\ data = NoneVal
    /\ backoff = 0
    /\ clock = 0
    /\ attempt = 0
    /\ result = NoneVal
    /\ rows = <<>>
    /\ txt = <<>>
    /\ calls = 0
    /\ sleeps = 0
    /\ waits = <<>>
    /\ limitRun = 0
    /\ remote = {}
    /\ sessions = <<>>
    /\ failed = FALSE
    /\ timedOut = FALSE
    /\ lastResp = NoneVal
    /\ onlyInProg = TRUE
    /\ cacheReady = NoneVal
    /\ unreachable = {}

\* main, line 203: the input file is read to its end
ReadSubdomains ==
    /\ pc = "read"
    /\ subdomains' = read_subdomains(file)
    /\ firstSeen' = IsFirstSeenOrder(subdomains', file)
    /\ file' = <<>>
    /\ pc' = IF subdomains' = <<>> THEN "done" ELSE "gate"
    /\ UNCHANGED << idx, data, backoff, clock, attempt, result, rows, txt,
                    calls, sleeps, waits, limitRun, remote, sessions, failed,
                    timedOut, lastResp, onlyInProg, cacheReady, unreachable >>

\* end of one iteration of the for loop of main
NextHost == IF idx + 1 > Len(subdomains) THEN "done" ELSE "gate"

\* main, lines 219-231: probe the host; placeholder row or enter scan_until_ready
Gate ==
    /\ pc = "gate"
    /\ \E conn \in ConnOutcomes :
         /\ unreachable' = IF conn = "connected" THEN unreachable
                           ELSE unreachable \cup {host}
         /\ IF ~has_https(conn)
            THEN /\ rows' = Append(rows, NoHttpsRow(host))
                 /\ txt' = Append(txt, [host |-> host, body |-> "HTTPS not found on this host."])
                 /\ idx' = idx + 1
                 /\ pc' = NextHost
            ELSE /\ pc' = "cache"
                 /\ UNCHANGED << rows, txt, idx >>
    /\ UNCHANGED << file, subdomains, firstSeen, data, backoff, clock, attempt, result,
                    calls, sleeps, waits, limitRun, remote, sessions, failed,
                    timedOut, lastResp, onlyInProg, cacheReady >>

\* scan_until_ready, lines 134-146: cache lookup, then the session is set up
CacheCheck ==
    /\ pc = "cache"
    /\ \E o \in CacheOutcomes(host) :
         LET cached == CacheTry(o) IN
         /\ cacheReady' = IF o.kind = "resp" /\ o.status = "READY" THEN o ELSE NoneVal
         /\ IF cached.kind = "raise"
            THEN /\ pc' = "crashed"
                 /\ UNCHANGED << result, backoff, clock, attempt, sessions >>
            ELSE IF cached.kind = "text"
            THEN /\ pc' = "aborted"
                 /\ UNCHANGED << result, backoff, clock, attempt, sessions >>
            ELSE IF CacheHit(cached)
            THEN /\ result' = cached
                 /\ pc' = "returned"
                 /\ UNCHANGED << backoff, clock, attempt, sessions >>
            ELSE /\ backoff' = SessionBackoff(backoff)
                 /\ clock' = 0
                 /\ attempt' = 0
                 /\ sessions' = Append(sessions, host)
                 /\ pc' = "submit"
                 /\ UNCHANGED result
    /\ remote' = remote \cup {host}
    /\ UNCHANGED << file, subdomains, firstSeen, idx, rows, txt, unreachable, data, calls, sleeps, waits, limitRun, failed,
                    timedOut, lastResp, onlyInProg >>

\* lines 148-155: first newScan call
FirstSubmit ==
    /\ pc = "submit"
    /\ \E o \in NewScanOutcomes(host) :
         /\ Received(o)
         /\ IF o.kind = "raise"
            THEN /\ result' = SubmitTry(host, o)
                 /\ pc' = IF result'.kind = "raise" THEN "crashed" ELSE "returned"
                 /\ UNCHANGED data
            ELSE /\ data' = o
                 /\ pc' = IF is_limit_error(o) = "raise" THEN "aborted"
                          ELSE IF IsLimit(o) THEN "limited" ELSE "poll"
                 /\ UNCHANGED result
    /\ UNCHANGED << mainVars, backoff, clock, attempt, sleeps, waits, sessions,
                    timedOut >>

\* lines 156-167: one iteration of the submit-phase backoff loop
LimitedRetry ==
    /\ pc = "limited"
    /\ LET wait_for == WaitFor(backoff) IN
         /\ clock' = clock + wait_for
         /\ sleeps' = sleeps + 1
         /\ waits' = Append(waits, wait_for)
    /\ backoff' = NextBackoff(backoff)
    /\ \E o \in NewScanOutcomes(host) :
         /\ Received(o)
         /\ data' = RetryTry(host, o)
         /\ pc' = IF data'.kind = "raise" THEN "crashed"
                  ELSE IF o.kind = "raise" THEN "poll"
                  ELSE IF is_limit_error(data') = "raise" THEN "aborted"
                  ELSE IF ~IsLimit(data') THEN "poll"
                  ELSE "limited"
    /\ UNCHANGED << mainVars, attempt, result, sessions, timedOut >>

\* lines 170-179: head of the poll loop: terminal status, then the ceiling;
\* data.get raises on an answer that is no object, append on null warnings
PollEval ==
    /\ pc = "poll"
    /\ IF data.kind = "text"
       THEN /\ pc' = "aborted"
            /\ UNCHANGED << result, timedOut >>
       ELSE LET status == data.status IN
         IF IsTerminal(status)
         THEN /\ result' = data
              /\ pc' = "returned"
              /\ UNCHANGED timedOut
         ELSE IF TimedOut(clock)
         THEN IF AppendWarning(data).kind = "raise"
              THEN /\ pc' = "aborted"
                   /\ UNCHANGED << result, timedOut >>
              ELSE /\ result' = AppendWarning(data)
                   /\ pc' = "returned"
                   /\ timedOut' = TRUE
         ELSE /\ pc' = "pollcall"
              /\ UNCHANGED << result, timedOut >>
    /\ UNCHANGED << mainVars, data, backoff, clock, attempt, calls, sleeps,
                    waits, limitRun, remote, sessions, failed, lastResp,
                    onlyInProg >>

\* lines 181-188: poll wait and re-poll; is_limit_error is called inside the
\* try, so what it raises is handled as a failure of the call is
PollCall ==
    /\ pc = "pollcall"
    /\ attempt' = attempt + 1
    /\ clock' = clock + POLL_WAIT
    /\ sleeps' = sleeps + 1
    /\ \E o \in NewScanOutcomes(host) :
         /\ Received(o)
         /\ IF o.kind = "raise" \/ is_limit_error(o) = "raise"
            THEN /\ result' = PollTry(host, Raise)
                 /\ pc' = IF result'.kind = "raise" THEN "crashed" ELSE "returned"
                 /\ UNCHANGED data
            ELSE /\ data' = o
                 /\ pc' = IF IsLimit(o) THEN "midlimit" ELSE "poll"
                 /\ UNCHANGED result
    /\ UNCHANGED << mainVars, backoff, waits, sessions, timedOut >>

\* lines 189-199: backoff in the middle of polling, then one more call
MidLimit ==
    /\ pc = "midlimit"
    /\ LET wait_for == WaitFor(backoff) IN
         /\ clock' = clock + wait_for
         /\ sleeps' = sleeps + 1
         /\ waits' = Append(waits, wait_for)
    /\ backoff' = NextBackoff(backoff)
    /\ \E o \in NewScanOutcomes(host) :
         /\ Received(o)
         /\ IF o.kind = "raise"
            THEN /\ result' = PollTry(host, o)
                 /\ pc' = IF result'.kind = "raise" THEN "crashed" ELSE "returned"
                 /\ UNCHANGED data
            ELSE /\ data' = o
                 /\ pc' = AfterExtraCall(o)
                 /\ UNCHANGED result
    /\ UNCHANGED << mainVars, attempt, sessions, timedOut >>

\* main, lines 233-246: summary row and full payload of the returned result
Write ==
    /\ pc = "returned"
    /\ rows' = Append(rows, extract_summary(result))
    /\ txt' = Append(txt, [host |-> host, body |-> "json"])
    /\ idx' = idx + 1
    /\ pc' = NextHost
    /\ data' = NoneVal
    /\ clock' = 0
    /\ attempt' = 0
    /\ result' = NoneVal
    /\ calls' = 0
    /\ sleeps' = 0
    /\ waits' = <<>>
    /\ limitRun' = 0
    /\ failed' = FALSE
    /\ timedOut' = FALSE
    /\ lastResp' = NoneVal
    /\ onlyInProg' = TRUE
    /\ cacheReady' = NoneVal
    /\ UNCHANGED << file, subdomains, firstSeen, backoff, remote, sessions, unreachable >>

Next ==
    \/ ReadSubdomains
    \/ Gate
    \/ CacheCheck
    \/ FirstSubmit
    \/ LimitedRetry
    \/ PollEval
    \/ PollCall
    \/ MidLimit
    \/ Write

Spec == Init /\ [][Next]_vars

TypeOK ==
    /\ pc \in {"read", "parsed", "gate", "cache", "submit", "limited", "poll", "pollcall",
               "midlimit", "returned", "done", "crashed", "aborted"}
    /\ backoff \in 0..BACKOFF_MAX
    /\ Len(rows) = idx - 1

FairSpec == Spec /\ WF_vars(Next)

\* ------------------------------------------------- read_subdomains alone
\* read_subdomains(INPUT_FILE), with the file kept for comparison
ReadKeep ==
    /\ pc = "read"
    /\ subdomains' = read_subdomains(file)
    /\ firstSeen' = IsFirstSeenOrder(subdomains', file)
    /\ pc' = "parsed"
    /\ UNCHANGED << file, idx, data, backoff, clock, attempt, result, rows, txt,
                    calls, sleeps, waits, limitRun, remote, sessions, failed,
                    timedOut, lastResp, onlyInProg, cacheReady, unreachable >>

ReadSpec == Init /\ [][ReadKeep]_vars

\* ---------------------------------------------------------------- claims
Last(q) == q[Len(q)]

Ceiling == MAX_POLL_MINUTES * 60

\* C1: when the cache lookup reports READY, that payload is what
\* scan_until_ready returns, and the session has made no newScan call and
\* no sleep.
C1_CacheReadyNoCalls ==
    cacheReady.kind = "resp" =>
        /\ pc = "returned"
        /\ result = cacheReady
        /\ calls = 0
        /\ sleeps = 0
        /\ clock = 0

C1_Witness ==
    /\ pc = "returned"
    /\ cacheReady.kind = "resp"
    /\ result = cacheReady

\* exactly one newScan call has been made and it answered with status READY
FirstAnswerReady ==
    /\ calls = 1
    /\ lastResp.kind = "resp"
    /\ lastResp.status = "READY"

\* C2 (as stated): once the first newScan call has answered with status
\* READY, no further newScan call and no sleep is made, and what is returned
\* is that answer.
C2_Original ==
    [][ FirstAnswerReady =>
          /\ calls' <= 1
          /\ sleeps' = 0
          /\ (pc' = "returned" => result' = lastResp) ]_vars

\* C2 (amended): once the first newScan call has answered with status READY
\* and without the quota-exceeded error, no further newScan call and no
\* sleep is made, and what is returned is that answer.
C2_FirstReadyOneCall ==
    [][ (FirstAnswerReady /\ is_limit_error(lastResp) = "False") =>
          /\ calls' <= 1
          /\ sleeps' = 0
          /\ pc' \in {"returned", "gate", "done"}
          /\ (pc' = "returned" => result' = lastResp) ]_vars

C2_Witness ==
    /\ pc = "returned"
    /\ FirstAnswerReady
    /\ is_limit_error(lastResp) = "False"
    /\ cacheReady.kind = "none"
    /\ result = lastResp
    /\ sleeps = 0

\* C3: the backoff waits slept in a session are non-decreasing and none
\* exceeds BACKOFF_MAX.
C3_WaitsMonotoneCapped ==
    \A i \in 1..Len(waits) :
        /\ waits[i] <= BACKOFF_MAX
        /\ (i > 1 => waits[i - 1] <= waits[i])

\* the ceiling has been reached, in a session that backed off in both phases
C3_Witness ==
    /\ Len(waits) >= 5
    /\ Last(waits) = BACKOFF_MAX
    /\ attempt > 0
    /\ pc = "returned"

\* C4 (as stated): after N consecutive quota-exceeded answers the backoff
\* wait slept before the next attempt is min(BACKOFF_START * 2^N, BACKOFF_MAX).
C4_Original ==
    [][ (pc \in {"limited", "midlimit"} /\ limitRun >= 1) =>
          Last(waits') = Min(BACKOFF_START * Pow2(limitRun), BACKOFF_MAX) ]_vars

\* C4 (amended): the k-th backoff wait of a session is
\* min(BACKOFF_START * 2^(k-1), BACKOFF_MAX); in the submit phase the session
\* has then received exactly k quota-exceeded answers, all consecutive.
C4_KthWait ==
    /\ \A k \in 1..Len(waits) :
           waits[k] = Min(BACKOFF_START * Pow2(k - 1), BACKOFF_MAX)
    /\ (pc = "limited" => (limitRun = Len(waits) + 1 /\ calls = limitRun))

C4_Witness ==
    /\ pc = "limited"
    /\ limitRun = 5
    /\ waits = <<60, 120, 240, 480>>

\* a session in which every newScan answer is in-progress has slept no more
\* than MAX_POLL_MINUTES, in poll waits only, and returns only at the ceiling
C5_Safety ==
    (onlyInProg /\ calls >= 1) =>
        /\ clock <= Ceiling
        /\ attempt * POLL_WAIT = clock
        /\ (pc = "returned" => (timedOut /\ clock <= Ceiling))

\* the payload has "warnings": null
HasNullWarnings(d) == d.kind = "resp" /\ d.wkey /\ d.wnull

WarningsOf(d) == IF d.wkey THEN d.warnings ELSE <<>>

\* C6: a session that ends at the ceiling returns the last payload received
\* from the remote service, with the same status and every other field, its
\* warnings kept and followed by exactly one timeout warning.
C6_TimeoutKeepsSnapshot ==
    timedOut =>
        /\ pc = "returned"
        /\ lastResp.kind = "resp"
        /\ result.status = lastResp.status
        /\ result.host = lastResp.host
        /\ result.errors = lastResp.errors
        /\ result.shape = lastResp.shape
        /\ result.error = lastResp.error
        /\ result.wkey
        /\ Len(result.warnings) = Len(WarningsOf(lastResp)) + 1
        /\ SubSeq(result.warnings, 1, Len(result.warnings) - 1) = WarningsOf(lastResp)
        /\ Last(result.warnings) = TimeoutWarning
        /\ Cardinality({ i \in 1..Len(result.warnings) :
                           result.warnings[i] = TimeoutWarning }) = 1

C6_Witness ==
    /\ timedOut
    /\ pc = "returned"
    /\ lastResp.wkey
    /\ Len(result.warnings) = 2

\* C7: no exception leaves scan_until_ready; once a newScan call has raised,
\* the session returns a record with the host, status ERROR and the failure
\* description.
C7_NoEscape ==
    /\ pc /= "crashed"
    /\ failed =>
         LET r == IF pc = "returned" THEN result ELSE data IN
         /\ pc \in {"returned", "poll"}
         /\ r.kind = "resp"
         /\ r.host = host
         /\ r.status = "ERROR"
         /\ r.error /= ""

C7_Witness ==
    /\ failed
    /\ pc = "returned"
    /\ attempt > 0
    /\ Len(waits) > 0
    /\ result.error = "poll failed"

\* C8: a host whose probe did not connect gets no remote call and no session,
\* and its record is the No HTTPS placeholder row.
C8_UnreachableNoRemote ==
    \A i \in 1..Len(subdomains) :
        subdomains[i] \in unreachable =>
            /\ subdomains[i] \notin remote
            /\ \A j \in 1..Len(sessions) : sessions[j] /= subdomains[i]
            /\ i <= Len(rows)
            /\ rows[i] = NoHttpsRow(subdomains[i])
            /\ txt[i].body = "HTTPS not found on this host."

C8_Witness ==
    /\ pc = "done"
    /\ Len(subdomains) = 2
    /\ subdomains[1] \in unreachable
    /\ subdomains[2] \in remote

\* C9 (as stated): the run never aborts, whatever the gate and the remote
\* service do; the host list holds the hosts of the input file, each once,
\* in first-seen order; the records written are those of the hosts already
\* processed, one each, in that order; at the end every host has its record.
C9_Original ==
    /\ pc \notin {"crashed", "aborted"}
    /\ firstSeen
    /\ Len(rows) = Len(txt)
    /\ pc /= "read" =>
         /\ Len(rows) = idx - 1
         /\ Len(rows) <= Len(subdomains)
         /\ \A i \in 1..Len(txt) : txt[i].host = subdomains[i]
         /\ \A i, j \in 1..Len(txt) : txt[i].host = txt[j].host => i = j
    /\ pc = "done" => Len(rows) = Len(subdomains)

\* C10 (as stated): what scan_until_ready returns is never a payload that
\* is_limit_error classifies as quota-exceeded.
C10_Original ==
    pc = "returned" => ~IsLimit(result)

\* C11 (as stated): every session that has been set up eventually returns,
\* with a terminal status or at the ceiling: once the elapsed time has
\* reached the ceiling, a session standing at the head of the submit-phase
\* retry loop or of the poll loop calls the service no more.
C11_Original ==
    /\ (pc = "submit") ~> (pc = "returned")
    /\ [][ (pc \in {"limited", "poll"} /\ clock >= Ceiling) => calls' = calls ]_vars

\* control locations inside a session
ActivePcs == {"submit", "limited", "poll", "pollcall", "midlimit"}

\* the record of host h has been written
Recorded(h) == \E i \in 1..Len(txt) : txt[i].host = h

\* C12: no host gets two sessions, at most one session is without its
\* record, and while a host is probed or scanned the records of all hosts
\* before it are written and the running session is its own.
C12_Serial ==
    /\ \A i, j \in 1..Len(sessions) : sessions[i] = sessions[j] => i = j
    /\ Cardinality({ i \in 1..Len(sessions) : ~Recorded(sessions[i]) }) <= 1
    /\ pc \in ActivePcs \cup {"gate", "cache", "returned"} =>
         /\ Len(rows) = idx - 1
         /\ \A k \in 1..(idx - 1) : Recorded(subdomains[k])
         /\ ~Recorded(host)
         /\ \A i \in 1..Len(sessions) :
                ~Recorded(sessions[i]) => (sessions[i] = host /\ pc \in ActivePcs \cup {"returned"})

C12_Witness ==
    /\ pc \in ActivePcs
    /\ idx = 2
    /\ Len(sessions) = 2
    /\ Recorded(sessions[1])
    /\ sessions[2] = host

\* C13: the step after a quota-exceeded poll answer sleeps one backoff wait
\* and makes one call; unless that call raises, its answer becomes the
\* current response and control is back at the head of the poll loop, where
\* no call and no sleep is made; a poll step itself makes one call.
C13_OneExtraCall ==
    [][ /\ pc = "midlimit" =>
            /\ calls' = calls + 1
            /\ sleeps' = sleeps + 1
            /\ Len(waits') = Len(waits) + 1
            /\ attempt' = attempt
            /\ \/ pc' = "poll" /\ data' = lastResp' /\ ~failed'
               \/ pc' = "returned" /\ failed'
        /\ pc = "pollcall" =>
            /\ calls' = calls + 1
            /\ sleeps' = sleeps + 1
            /\ waits' = waits
            /\ attempt' = attempt + 1
            /\ pc' = "midlimit" => IsLimit(data')
        /\ pc = "poll" =>
            /\ calls' = calls
            /\ sleeps' = sleeps
            /\ pc' \in {"pollcall", "returned", "aborted"} ]_vars

\* the extra call was answered quota-exceeded again and control is at the
\* head of the poll loop with that answer
C13_Witness ==
    /\ pc = "poll"
    /\ attempt = 1
    /\ calls = 3
    /\ limitRun = 2
    /\ Len(waits) = 1
    /\ IsLimit(data)

\* C14: once a newScan call of the session has raised, the next step returns
\* the ERROR record; no call is made and no sleep is slept any more.
C14_FailureEndsSession ==
    [][ failed =>
          \/ /\ pc = "poll"
             /\ pc' = "returned"
             /\ result' = data
             /\ result'.status = "ERROR"
             /\ calls' = calls
             /\ sleeps' = sleeps
             /\ clock' = clock
          \/ /\ pc = "returned"
             /\ result.status = "ERROR"
             /\ pc' \in {"gate", "done"} ]_vars

C14_Witness ==
    /\ failed
    /\ pc = "returned"
    /\ result.error = "newScan retry failed"
    /\ Len(waits) >= 1
    /\ calls = Len(waits) + 1

\* d carries the timeout warning as its last warning
HasTimeoutWarning(d) ==
    /\ d.wkey
    /\ d.warnings /= <<>>
    /\ Last(d.warnings) = TimeoutWarning

TakesWarning(d) == d.kind = "resp" /\ ~(d.wkey /\ d.wnull)

C16_BackoffOnlyGrows ==
    [][ /\ (pc \in {"limited", "midlimit"}) =>
            /\ IsLimit(data)
            /\ backoff' = Min(2 * backoff, BACKOFF_MAX)
            /\ backoff' >= backoff
        /\ (pc \in {"submit", "poll", "pollcall"}) =>
            /\ backoff' = backoff ]_vars

\* in-progress answers after two backoffs: the interval stays where it was
C16_Witness ==
    /\ pc = "poll"
    /\ backoff = 240
    /\ Len(waits) = 2
    /\ attempt >= 2
    /\ limitRun = 0
    /\ InProgress(data)

\* C17: every session starts with the floor as its backoff interval, so the
\* first backoff wait of every session, also of a later host, is
\* BACKOFF_START.
C17_BackoffNotCarried ==
    /\ pc = "submit" => backoff = BACKOFF_START
    /\ Len(waits) >= 1 => waits[1] = BACKOFF_START

\* the second host backs off for the first time
C17_Witness ==
    /\ idx = 2
    /\ Len(sessions) = 2
    /\ pc = "limited"
    /\ waits = <<BACKOFF_START>>
    /\ backoff = 2 * BACKOFF_START

\* C18 (as stated): every row written has as many fields as the header and
\* the host in its first column.
C18_Original ==
    \A i \in 1..Len(rows) :
        /\ Len(rows[i]) = Len(Header)
        /\ rows[i][1] = subdomains[i]

\* C19: read_subdomains returns the stripped lines that are hosts, each once,
\* at the place of its first occurrence, and drops none.
C19_ReadSubdomains ==
    pc = "parsed" => IsFirstSeenOrder(subdomains, file)

\* a host comes back after another one: lines a, b, a
C19_Witness ==
    /\ pc = "parsed"
    /\ Len(file) = 3
    /\ subdomains = << <<"a">>, <<"b">> >>
    /\ IsStripOf(<<"a">>, file[1])
    /\ IsStripOf(<<"b">>, file[2])
    /\ IsStripOf(<<"a">>, file[3])
    /\ file[1] /= file[3]

\* C20: what scan_until_ready returns has status READY or ERROR, or carries
\* the timeout warning.
C20_TerminalOrWarned ==
    pc = "returned" =>
        \/ result.status \in {"READY", "ERROR"}
        \/ \E i \in 1..Len(result.warnings) : result.wkey /\ result.warnings[i] = TimeoutWarning

C20_Witness ==
    /\ pc = "returned"
    /\ result.status = "IN_PROGRESS"
    /\ result.warnings = <<ServiceWarning, TimeoutWarning>>

====
